---------------------------- MODULE Spec2Model ----------------------------
(***************************************************************************)
(* exif-sorter (main.go): a directory walk that files every .jpg / .mp4    *)
(* entry under  <dest>/<date>/<name>,  the date read from the file's       *)
(* metadata or, failing that, from a digit pattern in the path.            *)
(*                                                                         *)
(* Strings are sequences of one-character strings, so that the regular     *)
(* expression, time.Parse and Time.Format are computed character by        *)
(* character.  A path is the sequence of its components.                   *)
(***************************************************************************)
EXTENDS Integers, Sequences, FiniteSets, TLC

VARIABLES cfg, fs, fs0, stack, pc, faults, met, last, processed, errored,
          written, xin, xout

vars == <<cfg, fs, fs0, stack, pc, faults, met, last, processed, errored,
          written, xin, xout>>

walkVars == <<cfg, fs, fs0, stack, faults, met, last, processed, errored, written>>

(***************************************************************************)
(* Characters and strings                                                  *)
(***************************************************************************)

\* The element of a one-element set.  An operator whose argument is used
\* more than once binds it through such a set, which computes it once.
The(S) == CHOOSE x \in S : TRUE

Digits == <<"0", "1", "2", "3", "4", "5", "6", "7", "8", "9">>

Upper == <<"A", "B", "C", "D", "E", "F", "G", "H", "I", "J", "K", "L", "M",
           "N", "O", "P", "Q", "R", "S", "T", "U", "V", "W", "X", "Y", "Z">>

Lower == <<"a", "b", "c", "d", "e", "f", "g", "h", "i", "j", "k", "l", "m",
           "n", "o", "p", "q", "r", "s", "t", "u", "v", "w", "x", "y", "z">>

\* The characters in byte order (the order sort.Strings compares by).
Alphabet == <<" ", "-", ".", "/">> \o Digits \o <<":">> \o Upper \o <<"_">> \o Lower

Range(q) == {q[i] : i \in 1..Len(q)}

DigitSet == Range(Digits)

UpperSet == Range(Upper)

IndexOf(seq, c) == CHOOSE i \in 1..Len(seq) : seq[i] = c

\* the rank of every character in byte order
Codes == [c \in Range(Alphabet) |-> IndexOf(Alphabet, c)]

Code(c) == Codes[c]

IsDigit(c) == c \in DigitSet

DigitVal(c) == IndexOf(Digits, c) - 1

DigitChar(n) == Digits[n + 1]

\* strings.ToLower, one character
LowerChar(c) == IF c \in UpperSet THEN Lower[IndexOf(Upper, c)] ELSE c

\* strings.ToLower
ToLower(s) == [i \in 1..Len(s) |-> LowerChar(s[i])]

\* strings.HasSuffix
HasSuffix(s, suf) ==
    /\ Len(s) >= Len(suf)
    /\ SubSeq(s, Len(s) - Len(suf) + 1, Len(s)) = suf

\* strings.Contains, for a one-character needle
Contains(s, c) == \E i \in 1..Len(s) : s[i] = c

\* the tail of s from position i on
From(s, i) == SubSeq(s, i, Len(s))

\* s < t in byte order: at the first position where they differ, or s is
\* the shorter
StrLess(s, t) ==
    LET n == IF Len(s) < Len(t) THEN Len(s) ELSE Len(t)
        diff == {i \in 1..n : s[i] # t[i]}
    IN  IF diff = {} THEN Len(s) < Len(t)
        ELSE \E i \in diff : /\ \A j \in diff : i <= j
                              /\ Code(s[i]) < Code(t[i])

\* the names of a set in ascending byte order
RECURSIVE SortNames(_)
SortNames(names) ==
    The({IF S = {} THEN <<>>
         ELSE The({<<m>> \o SortNames(S \ {m}) :
                     m \in {x \in S : \A y \in S \ {x} : StrLess(x, y)}}) :
         S \in {names}})

(***************************************************************************)
(* Paths (path/filepath)                                                   *)
(***************************************************************************)

\* the path as the string the program sees: "/" before every component
RECURSIVE PathStr(_)
PathStr(path) ==
    The({IF p = <<>> THEN <<>> ELSE <<"/">> \o p[1] \o PathStr(Tail(p)) :
         p \in {path}})

\* filepath.Base
Base(p) == p[Len(p)]

\* filepath.Dir
Dir(p) == SubSeq(p, 1, Len(p) - 1)

\* filepath.Ext: the suffix of the last component from its last dot on
Ext(p) ==
    The({IF dots = {} THEN <<>>
         ELSE From(Base(p), CHOOSE i \in dots : \A j \in dots : j <= i) :
         dots \in {{i \in 1..Len(Base(p)) : Base(p)[i] = "."}}})

\* the components of a slash-separated relative string
RECURSIVE SplitSlash(_, _)
SplitSlash(str, part) ==
    The({IF s = <<>> THEN (IF cur = <<>> THEN <<>> ELSE <<cur>>)
         ELSE IF s[1] = "/"
              THEN (IF cur = <<>> THEN <<>> ELSE <<cur>>) \o SplitSlash(Tail(s), <<>>)
              ELSE SplitSlash(Tail(s), Append(cur, s[1])) :
         s \in {str}, cur \in {part}})

(***************************************************************************)
(* package time: Parse and Format for the layouts the program uses         *)
(***************************************************************************)

\* time.Time{}: January 1, year 1, 00:00:00 UTC
ZeroTime == [Y |-> 1, M |-> 1, D |-> 1, h |-> 0, m |-> 0, s |-> 0, ns |-> 0]

IsZero(t) == t = ZeroTime

IsLeap(y) == y % 4 = 0 /\ (y % 100 # 0 \/ y % 400 = 0)

DaysIn(mo, y) ==
    IF mo = 2 THEN (IF IsLeap(y) THEN 29 ELSE 28)
    ELSE IF mo \in {4, 6, 9, 11} THEN 30 ELSE 31

\* The layouts, as the chunks time.Parse cuts them into: a reference field
\* ("2006", "01", "02", "15", "04", "05") or a literal character.
LayoutExif == <<"2006", ":", "01", ":", "02", " ", "15", ":", "04", ":", "05">>
LayoutDash == <<"2006", "01", "02", "-", "15", "04", "05">>
LayoutUnderscore == <<"2006", "01", "02", "_", "15", "04", "05">>
LayoutDate == <<"2006", "01", "02">>
LayoutWrite == <<"2006", "-", "01", "-", "02", " ", "15", ":", "04", ":", "05">>
LayoutFolder == <<"2006", "/", "01", "/", "02">>

\* the number of leading digits of s, at most n
LeadDigits(s, n) ==
    Cardinality({k \in 1..n : k <= Len(s) /\ \A j \in 1..k : IsDigit(s[j])})

\* the number a string of digits denotes
RECURSIVE Atoi(_)
Atoi(str) ==
    The({IF s = <<>> THEN 0
         ELSE Atoi(SubSeq(s, 1, Len(s) - 1)) * 10 + DigitVal(s[Len(s)]) :
         s \in {str}})

\* the first n digits of a fraction as a number, short ones padded with
\* zeros (parseNanoseconds, n = 9)
Nanos(s, n) ==
    Atoi([i \in 1..n |-> IF i <= Len(s) THEN s[i] ELSE "0"])

\* time.Parse, chunk by chunk: [ok, t].  The year takes four digits, month,
\* day, minute and second two, the hour one or two (getnum, not fixed);
\* a fraction after the seconds is read though the layout has none; text
\* left over, or a field out of range, is an error.
RECURSIVE ParseChunks(_, _, _)
ParseChunks(lay, val, tm) ==
  The({
        IF layout = <<>>
        THEN IF value # <<>> THEN [ok |-> FALSE, t |-> ZeroTime]
             ELSE IF t.D < 1 \/ t.D > DaysIn(t.M, t.Y) THEN [ok |-> FALSE, t |-> ZeroTime]
             ELSE [ok |-> TRUE, t |-> t]
        ELSE
          LET c == layout[1]
              rest == Tail(layout)
              bad == [ok |-> FALSE, t |-> ZeroTime]
          IN  CASE c = "2006" ->
                     IF LeadDigits(value, 4) < 4 THEN bad
                     ELSE ParseChunks(rest, From(value, 5),
                                      [t EXCEPT !.Y = Atoi(SubSeq(value, 1, 4))])
                [] c \in {"01", "02", "04", "05"} ->
                     IF LeadDigits(value, 2) < 2 THEN bad
                     ELSE LET n == Atoi(SubSeq(value, 1, 2))
                              v == From(value, 3)
                          IN (CASE c = "01" ->
                                     IF n <= 0 \/ 12 < n THEN bad
                                     ELSE ParseChunks(rest, v, [t EXCEPT !.M = n])
                                [] c = "02" -> ParseChunks(rest, v, [t EXCEPT !.D = n])
                                [] c = "04" ->
                                     IF 60 <= n THEN bad
                                     ELSE ParseChunks(rest, v, [t EXCEPT !.m = n])
                                [] c = "05" ->
                                     IF 60 <= n THEN bad
                                     ELSE IF /\ Len(v) >= 2
                                             /\ v[1] \in {".", ","}
                                             /\ IsDigit(v[2])
                                          THEN LET k == LeadDigits(Tail(v), Len(v))
                                               IN  ParseChunks(rest, From(v, k + 2),
                                                     [t EXCEPT !.s = n,
                                                        !.ns = Nanos(SubSeq(v, 2, k + 1), 9)])
                                          ELSE ParseChunks(rest, v, [t EXCEPT !.s = n]))
                [] c = "15" ->
                     LET w == LeadDigits(value, 2)
                     IN  IF w = 0 THEN bad
                         ELSE LET hr == Atoi(SubSeq(value, 1, w))
                              IN  IF 24 <= hr THEN bad
                                  ELSE ParseChunks(rest, From(value, w + 1),
                                                   [t EXCEPT !.h = hr])
                [] OTHER ->
                     IF value = <<>> \/ value[1] # c THEN bad
                     ELSE ParseChunks(rest, Tail(value), t) :
    layout \in {lay}, value \in {val}, t \in {tm}})

\* time.Parse(layout, value): on an error the result is the zero Time
TimeParse(layout, value) ==
    ParseChunks(layout, value,
                [Y |-> 0, M |-> 1, D |-> 1, h |-> 0, m |-> 0, s |-> 0, ns |-> 0])

\* n in decimal, zero-padded to w digits (appendInt)
Pad(n, w) == [i \in 1..w |-> DigitChar((n \div (10 ^ (w - i))) % 10)]

\* Time.Format(layout)
RECURSIVE TimeFormat(_, _)
TimeFormat(tm, lay) ==
    The({IF layout = <<>> THEN <<>>
         ELSE LET c == layout[1]
              IN  (CASE c = "2006" -> Pad(t.Y, 4)
                     [] c = "01" -> Pad(t.M, 2)
                     [] c = "02" -> Pad(t.D, 2)
                     [] c = "15" -> Pad(t.h, 2)
                     [] c = "04" -> Pad(t.m, 2)
                     [] c = "05" -> Pad(t.s, 2)
                     [] OTHER -> <<c>>)
                  \o TimeFormat(t, Tail(layout)) :
         t \in {tm}, layout \in {lay}})

(***************************************************************************)
(* Date resolution (extractDate)                                           *)
(***************************************************************************)

\* dateRegex = (\d{8}(?:-\d{6})?)  -- eight digits at position i of s
DigitsAt(s, i, n) == /\ i + n - 1 <= Len(s)
                     /\ \A j \in i..(i + n - 1) : IsDigit(s[j])

\* the match that starts at position i of s: the optional "-" and six
\* digits are taken when they follow; the whole match and its one group
MatchAt(s, i) ==
    LET long == /\ i + 8 <= Len(s)
                /\ s[i + 8] = "-"
                /\ DigitsAt(s, i + 9, 6)
    IN  The({<<mt, mt>> : mt \in {SubSeq(s, i, IF long THEN i + 14 ELSE i + 7)}})

\* the match at the leftmost of the positions where eight digits stand; no
\* element when there is none
Leftmost(s, starts) ==
    IF starts = {} THEN <<>>
    ELSE The({MatchAt(s, i) :
              i \in {CHOOSE k \in starts : \A j \in starts : k <= j}})

\* dateRegex.FindStringSubmatch(s)
FindStringSubmatch(s) ==
    The({Leftmost(s, starts) :
         starts \in {{i \in 1..Len(s) : DigitsAt(s, i, 8)}}})

\* What et.ExtractMetadata(path) returns for one file: the tool's error for
\* the file, or the fields it read.
NoFields == [k \in {} |-> <<>>]

FileMetadata(err, fields) == [Err |-> err, Fields |-> IF err THEN NoFields ELSE fields]

\* FileMetadata.GetString(k): the empty string when the key is absent
GetString(fm, k) == IF k \in DOMAIN fm.Fields THEN fm.Fields[k] ELSE <<>>

DotMp4 == <<".", "m", "p", "4">>
DotJpg == <<".", "j", "p", "g">>
DotJpeg == <<".", "j", "p", "e", "g">>

\* a variant that reads the tag updateExif reads for images
ReadTagDateTaken(path) ==
    The({IF ext = DotMp4 THEN "MediaCreateDate"
         ELSE IF ext \in {DotJpg, DotJpeg} THEN "DateTaken"
         ELSE "" :
         ext \in {ToLower(Ext(path))}})

\* the tag extractDate reads, by the extension of the path
ReadTag(path) ==
    The({IF ext = DotMp4 THEN "MediaCreateDate"
         ELSE IF ext \in {DotJpg, DotJpeg} THEN "DateTimeOriginal"
         ELSE "" :
         ext \in {ToLower(Ext(path))}})

Result(date, ifExif, err) == [date |-> date, ifExif |-> ifExif, err |-> err]

\* the layout by the separator the match holds, and time.Parse with it
ParseMatch(dateStr) ==
    The({IF ~r.ok THEN Result(ZeroTime, FALSE, "parse")
         ELSE Result(r.t, FALSE, "nil") :
         r \in {IF Contains(dateStr, "-") THEN TimeParse(LayoutDash, dateStr)
                ELSE IF Contains(dateStr, "_")
                     THEN TimeParse(LayoutUnderscore, dateStr)
                     ELSE TimeParse(LayoutDate, dateStr)}})

\* no match is an error, else matches[0] is parsed
MatchDate(matches) ==
    IF Len(matches) = 0 THEN Result(ZeroTime, FALSE, "nomatch")
    ELSE The({ParseMatch(dateStr) : dateStr \in {matches[1]}})

\* the second half of extractDate: the pattern is applied to the path
FilenameDate(path) ==
    The({MatchDate(matches) :
           matches \in {FindStringSubmatch(str) : str \in {PathStr(path)}}})

\* the string of the tag extractDate reads: empty for another extension
MetadataString(path, fm) ==
    The({IF key = "" THEN <<>> ELSE GetString(fm, key) : key \in {ReadTag(path)}})

\* extractDate(path, dateRegex): tool is how exiftool.NewExiftool() ended,
\* fm the one element of et.ExtractMetadata(path)
extractDate(path, tool, fm) ==
    IF tool # "ok" THEN Result(ZeroTime, FALSE, "init")
    ELSE The({IF ~IsZero(date) THEN Result(date, TRUE, "nil")
              ELSE FilenameDate(path) :
              date \in {TimeParse(LayoutExif, MetadataString(path, fm)).t}})

(***************************************************************************)
(* File names, tag values and the times they stand for                     *)
(***************************************************************************)

NameDash == <<"a", "_", "2", "0", "2", "3", "0", "6", "1", "5", "-",
              "1", "4", "3", "0", "0", "0", ".", "j", "p", "g">>
NameUnderscore == <<"b", "_", "2", "0", "2", "3", "0", "6", "1", "5", "_",
                    "1", "4", "3", "0", "0", "0", ".", "m", "p", "4">>
NameNoDate == <<"c", ".", "j", "p", "g">>
NameUpper == <<"E", "_", "2", "0", "2", "4", "0", "2", "2", "9", ".", "J", "P", "G">>
NameBadDate == <<"x", "_", "2", "0", "2", "3", "1", "3", "4", "5", ".", "j", "p", "g">>
NamePng == <<"p", "_", "2", "0", "2", "3", "0", "6", "1", "5", ".", "p", "n", "g">>
NameLink == <<"l", "_", "2", "0", "2", "3", "0", "6", "1", "5", ".", "j", "p", "g">>
NameAlbum == <<"k", ".", "m", "p", "4">>
NameHidden == <<"v", ".", "j", "p", "g">>

DirS == <<"s">>
DirD == <<"d">>
DirZ == <<"z">>
DirU == <<"u">>
DirDigits == <<"2", "0", "2", "0", "0", "1", "0", "1">>

Time(y, mo, d, h, mi, s) ==
    [Y |-> y, M |-> mo, D |-> d, h |-> h, m |-> mi, s |-> s, ns |-> 0]

TagValid == <<"2", "0", "2", "1", ":", "0", "3", ":", "0", "4", " ",
              "0", "5", ":", "0", "6", ":", "0", "7">>
TagShortHour == <<"2", "0", "1", "9", ":", "1", "2", ":", "3", "1", " ",
                  "7", ":", "0", "8", ":", "0", "9">>
TagZero == <<"0", "0", "0", "1", ":", "0", "1", ":", "0", "1", " ",
             "0", "0", ":", "0", "0", ":", "0", "0">>
TagNulls == <<"0", "0", "0", "0", ":", "0", "0", ":", "0", "0", " ",
              "0", "0", ":", "0", "0", ":", "0", "0">>
TagDashed == <<"2", "0", "2", "1", "-", "0", "3", "-", "0", "4", " ",
               "0", "5", ":", "0", "6", ":", "0", "7">>

\* the tag values that are valid, non-zero timestamps, with the time each
\* one denotes
ValidTagTime(tag) ==
    IF tag = TagValid THEN Time(2021, 3, 4, 5, 6, 7)
    ELSE IF tag = TagShortHour THEN Time(2019, 12, 31, 7, 8, 9)
    ELSE ZeroTime

IsValidTag(tag) == tag \in {TagValid, TagShortHour}

\* the time a file name denotes: its eight-digit date and, when the name
\* carries one, the six-digit time after "-" or "_"
NameTime(name) ==
    IF name = NameDash \/ name = NameUnderscore THEN Time(2023, 6, 15, 14, 30, 0)
    ELSE IF name = NameUpper THEN Time(2024, 2, 29, 0, 0, 0)
    ELSE IF name = NameLink THEN Time(2023, 6, 15, 0, 0, 0)
    ELSE ZeroTime

NameHasDate(name) == name \in {NameDash, NameUnderscore, NameUpper, NameLink}

NameHasPattern(name) == \E i \in 1..Len(name) : DigitsAt(name, i, 8)

(***************************************************************************)
(* extractDate on its own: one call on a path and what the tool returns    *)
(***************************************************************************)

XNames == {NameDash, NameUnderscore, NameNoDate, NameUpper, NameBadDate}

XDirs == {<<DirS>>, <<DirS, DirDigits>>}

XFields ==
    {NoFields}
    \cup {[DateTimeOriginal |-> v] : v \in {TagValid, TagShortHour, TagZero, TagNulls, TagDashed}}
    \cup {[MediaCreateDate |-> v] : v \in {TagValid, TagZero}}
    \cup {[DateTimeOriginal |-> TagValid, MediaCreateDate |-> TagShortHour]}

Idle == [op |-> "none"]

InitExtract ==
    /\ pc = "xcall"
    /\ xin \in [path : {Append(d, n) : d \in XDirs, n \in XNames},
                tool : {"ok"},
                fm : {FileMetadata(e, f) : e \in BOOLEAN, f \in XFields}]
               \cup [path : {Append(d, n) : d \in XDirs, n \in XNames},
                     tool : {"initerr"},
                     fm : {FileMetadata(TRUE, NoFields)}]
    /\ xout = Result(ZeroTime, FALSE, "pending")
    /\ cfg = Idle /\ fs = Idle /\ fs0 = Idle /\ stack = <<>> /\ faults = 0
    /\ met = Idle /\ last = Idle /\ processed = {} /\ errored = {} /\ written = {}

XCall ==
    /\ pc = "xcall"
    /\ xout' = extractDate(xin.path, xin.tool, xin.fm)
    /\ pc' = "xdone"
    /\ UNCHANGED <<xin, walkVars>>

XInitError == XCall /\ xout'.err = "init"
XFromMetadata == XCall /\ xout'.err = "nil" /\ xout'.ifExif
XFromFilename == XCall /\ xout'.err = "nil" /\ ~xout'.ifExif
XNoMatch == XCall /\ xout'.err = "nomatch"
XParseError == XCall /\ xout'.err = "parse"

NextExtract == XInitError \/ XFromMetadata \/ XFromFilename \/ XNoMatch \/ XParseError

SpecExtract == InitExtract /\ [][NextExtract]_vars

(***************************************************************************)
(* The file system the program works on                                    *)
(*                                                                         *)
(* fs maps every existing path to its entry.  An entry is a directory, a   *)
(* regular file or a symbolic link to a file outside the tree; data is     *)
(* what reading the path yields: an identity of the bytes and the          *)
(* metadata fields the bytes hold.                                         *)
(***************************************************************************)

Data(id, fields) == [id |-> id, fields |-> fields]

\* what os.Create leaves: no bytes
Empty == Data(0, NoFields)

\* what an interrupted io.Copy leaves: some of the bytes
Partial == Data(-1, NoFields)

Entry(kind, data, readable) == [kind |-> kind, data |-> data, readable |-> readable]

NewDir == Entry("dir", Empty, TRUE)

Exists(f, p) == p \in DOMAIN f

IsDir(f, p) == Exists(f, p) /\ f[p].kind = "dir"

Put(f, p, e) == [q \in DOMAIN f \cup {p} |-> IF q = p THEN e ELSE f[q]]

Remove(f, p) == [q \in DOMAIN f \ {p} |-> f[q]]

Prefixes(p) == {SubSeq(p, 1, n) : n \in 1..Len(p)}

\* os.MkdirAll(d): an existing prefix that is no directory is an error,
\* every missing prefix is created
MkdirAll(f, d) ==
    IF \E q \in Prefixes(d) : Exists(f, q) /\ ~IsDir(f, q)
    THEN [err |-> TRUE, fs |-> f]
    ELSE [err |-> FALSE,
          fs |-> [q \in DOMAIN f \cup Prefixes(d) |->
                    IF Exists(f, q) THEN f[q] ELSE NewDir]]

\* ensureDir(path): MkdirAll of the path's directory; io = "mkdir" is the
\* system refusing it
ensureDir(f, path, io) ==
    IF io = "mkdir" THEN [err |-> TRUE, fs |-> f] ELSE MkdirAll(f, Dir(path))

\* os.Create(dest): a directory is an error; an existing file, or the file
\* a link leads to, is cut to no bytes; a missing one is made
Create(f, dest) ==
    IF IsDir(f, dest) THEN [err |-> TRUE, fs |-> f]
    ELSE [err |-> FALSE,
          fs |-> Put(f, dest, IF Exists(f, dest)
                              THEN [f[dest] EXCEPT !.data = Empty]
                              ELSE Entry("file", Empty, TRUE))]

\* the end of copyFile: io.Copy streams what the source holds by now into
\* the created file; io = "copy" is the stream breaking off
copyStream(c, src, dest, io) ==
    IF c.err THEN c
    ELSE IF io = "copy"
         THEN [err |-> TRUE, fs |-> [c.fs EXCEPT ![dest].data = Partial]]
         ELSE [err |-> FALSE, fs |-> [c.fs EXCEPT ![dest].data = c.fs[src].data]]

\* copyFile after ensureDir returned d: create the destination, then stream
copyCreate(d, src, dest, io) ==
    IF d.err THEN d
    ELSE IF io = "create" THEN [err |-> TRUE, fs |-> d.fs]
    ELSE The({copyStream(c, src, dest, io) : c \in {Create(d.fs, dest)}})

\* copyFile(src, dest): open the source, make the directories, create the
\* destination, stream the bytes
copyFile(f, src, dest, io) ==
    IF io = "open" \/ ~Exists(f, src) \/ ~f[src].readable
    THEN [err |-> TRUE, fs |-> f]
    ELSE The({copyCreate(d, src, dest, io) : d \in {ensureDir(f, dest, io)}})

\* os.Rename(src, dest): the entry moves and replaces a file that is there;
\* a missing source or a directory at dest is an error; one path renamed to
\* itself is left as it is
Rename(f, src, dest) ==
    IF ~Exists(f, src) \/ IsDir(f, dest) THEN [err |-> TRUE, fs |-> f]
    ELSE IF src = dest THEN [err |-> FALSE, fs |-> f]
    ELSE [err |-> FALSE, fs |-> Put(Remove(f, src), dest, f[src])]

\* renameFile after ensureDir returned d; io = "rename" is the system
\* refusing the rename (another volume)
renameInto(d, src, dest, io) ==
    IF d.err THEN d
    ELSE IF io = "rename" THEN [err |-> TRUE, fs |-> d.fs]
    ELSE Rename(d.fs, src, dest)

\* renameFile(src, dest)
renameFile(f, src, dest, io) ==
    The({renameInto(d, src, dest, io) : d \in {ensureDir(f, dest, io)}})

\* et.ExtractMetadata(path): the tool's error for a file it cannot read or
\* that holds no bytes, else the fields of the file
ExtractMetadata(f, path, fileErr) ==
    IF fileErr \/ ~Exists(f, path) \/ f[path].kind = "dir"
       \/ ~f[path].readable \/ f[path].data.id <= 0
    THEN FileMetadata(TRUE, NoFields)
    ELSE FileMetadata(FALSE, f[path].data.fields)

\* the tags updateExif sets, by the extension of the path
WriteTags(path) ==
    The({IF ext = DotMp4 THEN {"MediaCreateDate", "CreateDate"}
         ELSE IF ext \in {DotJpg, <<".", "j", "e", "p", "g">>}
              THEN {"DateTimeOriginal", "CreateDate"}
              ELSE {} :
         ext \in {ToLower(Ext(path))}})

\* updateExif(path, date): an error only when the tool does not start; the
\* outcome of e.WriteMetadata is not looked at (dropped: the tool wrote
\* nothing)
updateExif(f, path, date, btool, dropped) ==
    IF btool # "ok" THEN [err |-> TRUE, fs |-> f]
    ELSE LET fm == ExtractMetadata(f, path, FALSE)
             v == TimeFormat(date, LayoutWrite)
             keys == WriteTags(path)
             old == f[path].data.fields
         IN  IF dropped \/ fm.Err \/ keys = {} THEN [err |-> FALSE, fs |-> f]
             ELSE [err |-> FALSE,
                   fs |-> [f EXCEPT ![path].data.fields =
                             [k \in DOMAIN old \cup keys |->
                                IF k \in keys THEN v ELSE old[k]]]]

(***************************************************************************)
(* The walk callback (main, the function passed to filepath.Walk)          *)
(***************************************************************************)

\* how many results of system and tool calls go wrong in one run at most
MaxFaults == 1

\* What the system and the metadata tool do in one call of the callback,
\* beyond what the file system decides: lstat fails for a listed name, the
\* tool does not start, the tool reports an error for the file, a step of
\* the transfer fails, the tool does not start for updateExif, the write of
\* the tags is dropped.
Envs ==
    [lstat : BOOLEAN, tool : {"ok", "initerr"}, fileErr : BOOLEAN,
     io : {"ok", "open", "mkdir", "create", "copy", "rename"},
     btool : {"ok", "initerr"}, dropped : BOOLEAN]

NoFault == [lstat |-> FALSE, tool |-> "ok", fileErr |-> FALSE, io |-> "ok",
            btool |-> "ok", dropped |-> FALSE]

FaultsOf(env) == {k \in DOMAIN env : env[k] # NoFault[k]}

\* the record of one step of the run
Rec(op, path) ==
    [op |-> op, path |-> path, kind |-> "none", fm |-> FileMetadata(TRUE, NoFields),
     tool |-> "ok", res |-> Result(ZeroTime, FALSE, "none"), newName |-> <<>>,
     orig |-> Empty, xfer |-> "none", post |-> <<>>, backfill |-> "none",
     bpath |-> <<>>, errlog |-> FALSE, again |-> FALSE, used |-> {}]

\* a variant of the filter without the test for a directory
QualifiesAnyKind(kind, name) ==
    The({HasSuffix(low, DotJpg) \/ HasSuffix(low, DotMp4) :
         low \in {ToLower(name)}})

\* the filter of the callback: not a directory, and the lowercased name
\* ends in .jpg or .mp4
Qualifies(kind, name) ==
    The({~(kind = "dir" \/ (~HasSuffix(low, DotJpg) /\ ~HasSuffix(low, DotMp4))) :
         low \in {ToLower(name)}})

\* newName: filepath.Join(dest, date.Format(folderFormat), filepath.Base(path))
NewName(dest, date, path) ==
    dest \o SplitSlash(TimeFormat(date, LayoutFolder), <<>>) \o <<Base(path)>>

\* the state of source and destination right after the transfer
Post(f, src, dest) ==
    [srcExists |-> Exists(f, src),
     srcData |-> IF Exists(f, src) THEN f[src].data ELSE Empty,
     dstExists |-> Exists(f, dest),
     dstData |-> IF Exists(f, dest) THEN f[dest].data ELSE Empty]

\* a variant that backfills whatever the origin of the date
NeedsBackfillAlways(update, ifExif) == update

\* the condition of the backfill: *updateExifFlag && !ifExif
NeedsBackfill(update, ifExif) == update /\ ~ifExif

\* a variant that hands the error of date resolution back to the walk
ReturnOfPropagating(op) == IF op = "dateerr" THEN "err" ELSE "nil"

\* what the callback returns to filepath.Walk, by the way it ended
ReturnOf(op) == "nil"

\* the end of the callback, after updateExif returned u
afterBackfill(u, r4) ==
    [fs |-> u.fs,
     rec |-> IF u.err
             THEN [r4 EXCEPT !.op = "backfillerr", !.backfill = "error",
                             !.errlog = TRUE]
             ELSE [r4 EXCEPT !.op = "backfilled", !.backfill = "ok"],
     ret |-> ReturnOf(IF u.err THEN "backfillerr" ELSE "backfilled")]

\* the callback after the transfer returned t: an error is logged; else the
\* backfill, when it is asked for and the date is not from metadata
afterTransfer(c, path, env, res, newName, t, r2) ==
    IF t.err
    THEN [fs |-> t.fs,
          rec |-> [r2 EXCEPT !.op = "xfererr", !.xfer = "error", !.errlog = TRUE],
          ret |-> ReturnOf("xfererr")]
    ELSE LET r3 == [r2 EXCEPT !.op = "done", !.xfer = "ok",
                              !.post = Post(t.fs, path, newName)]
         IN  IF NeedsBackfill(c.update, res.ifExif)
             THEN The({afterBackfill(u,
                         [r3 EXCEPT !.bpath = newName,
                            !.used = @ \cup {k \in {"btool"} : env.btool # "ok"}
                                       \cup {k \in {"dropped"} :
                                               env.btool = "ok" /\ env.dropped}]) :
                       u \in {updateExif(t.fs, newName, res.date, env.btool,
                                         env.dropped)}})
             ELSE [fs |-> t.fs, rec |-> r3, ret |-> ReturnOf("done")]

\* the callback with newName computed: copy or move
transfer(c, f, path, env, res, newName, r1) ==
    The({afterTransfer(c, path, env, res, newName, t,
                       [r1 EXCEPT !.newName = newName,
                                  !.used = @ \cup {k \in {"io"} : env.io # "ok"}]) :
         t \in {IF c.copy THEN copyFile(f, path, newName, env.io)
                ELSE renameFile(f, path, newName, env.io)}})

\* the callback after extractDate returned res: an error is logged; else
\* the new name is computed and the file transferred
afterDate(c, f, path, env, res, r1) ==
    IF res.err # "nil"
    THEN [fs |-> f, rec |-> [r1 EXCEPT !.op = "dateerr", !.errlog = TRUE],
          ret |-> ReturnOf("dateerr")]
    ELSE The({transfer(c, f, path, env, res, newName, r1) :
              newName \in {NewName(c.dest, res.date, path)}})

\* the metadata the tool returns in extractDate, and extractDate on it
resolve(c, f, path, env, fm, base) ==
    The({afterDate(c, f, path, env, res,
                   [base EXCEPT !.fm = fm, !.tool = env.tool, !.res = res,
                                !.orig = f[path].data,
                                !.used = {k \in {"tool"} : env.tool # "ok"}
                                         \cup {k \in {"fileErr"} :
                                                 env.tool = "ok" /\ env.fileErr}]) :
         res \in {extractDate(path, env.tool, fm)}})

\* One call of the callback on path (kind of the entry, werr the error the
\* walk hands in): the file system after it, what it did, what it returns.
walkFn(c, f, path, kind, werr, env, wr) ==
    LET base == [Rec("skip", path) EXCEPT !.kind = kind, !.again = path \in wr]
    IN  IF werr
        THEN [fs |-> f, rec |-> [base EXCEPT !.op = "error", !.errlog = TRUE],
              ret |-> ReturnOf("error")]
        ELSE IF ~Qualifies(kind, Base(path))
        THEN [fs |-> f, rec |-> base, ret |-> ReturnOf("skip")]
        ELSE The({resolve(c, f, path, env, fm, base) :
                  fm \in {IF env.tool = "ok"
                          THEN ExtractMetadata(f, path, env.fileErr)
                          ELSE FileMetadata(TRUE, NoFields)}})

(***************************************************************************)
(* filepath.Walk                                                           *)
(*                                                                         *)
(* stack holds, per directory being listed, its path and the names still   *)
(* to visit (read once, sorted, when the directory was entered).  The root *)
(* is visited like a name of its parent.                                   *)
(***************************************************************************)

Children(f, d) == {Base(q) : q \in {x \in DOMAIN f : Len(x) = Len(d) + 1 /\ Dir(x) = d}}

Frame(path, names) == [path |-> path, names |-> names]

Top == stack[Len(stack)]

\* the run's trees: the source tree /s, with /s/z the destination of an
\* earlier run
File(id, fields) == Entry("file", Data(id, fields), TRUE)

MkFs(S) == [q \in {e[1] : e \in S} |-> (CHOOSE e \in S : e[1] = q)[2]]

Y2024 == <<"2", "0", "2", "4">>
M02 == <<"0", "2">>
D29 == <<"2", "9">>

Tree ==
    MkFs({ <<<<DirS>>, NewDir>>,
           <<<<DirS, DirDigits>>, NewDir>>,
           <<<<DirS, DirDigits, NameNoDate>>, File(1, NoFields)>>,
           <<<<DirS, NameDash>>, File(2, NoFields)>>,
           <<<<DirS, NameUnderscore>>, File(3, [MediaCreateDate |-> TagValid])>>,
           <<<<DirS, NameNoDate>>, File(4, [DateTimeOriginal |-> TagNulls])>>,
           <<<<DirS, NamePng>>, File(5, [DateTimeOriginal |-> TagValid])>>,
           <<<<DirS, NameLink>>, Entry("symlink", Data(6, NoFields), TRUE)>>,
           <<<<DirS, NameAlbum>>, NewDir>>,
           <<<<DirS, DirU>>, Entry("dir", Empty, FALSE)>>,
           <<<<DirS, DirU, NameHidden>>, File(7, NoFields)>>,
           <<<<DirS, DirZ>>, NewDir>>,
           <<<<DirS, DirZ, Y2024>>, NewDir>>,
           <<<<DirS, DirZ, Y2024, M02>>, NewDir>>,
           <<<<DirS, DirZ, Y2024, M02, D29>>, NewDir>>,
           <<<<DirS, DirZ, Y2024, M02, D29, NameUpper>>, File(8, NoFields)>> })

Dests == {<<DirD>>, <<DirS, DirZ>>}

Init ==
    /\ cfg \in [src : {<<DirS>>}, dest : Dests, copy : BOOLEAN, update : BOOLEAN]
    /\ fs = Tree
    /\ fs0 = fs
    /\ stack = <<Frame(Dir(cfg.src), <<Base(cfg.src)>>)>>
    /\ pc = "walk"
    /\ faults = 0
    /\ met = NoFault
    /\ last = Rec("none", <<>>)
    /\ processed = <<>>
    /\ errored = {}
    /\ written = {}
    /\ xin = Idle
    /\ xout = Idle

\* the outcomes of system and tool calls the run may still meet; met is
\* the one the last step met
EnvsLeft == {e \in Envs : faults + Cardinality(FaultsOf(e)) <= MaxFaults}

\* os.Lstat(path), and whether the directory it finds can be listed
Lstat(f, path, fault) ==
    LET lerr == fault \/ ~Exists(f, path)
        kind == IF lerr THEN "none" ELSE f[path].kind
    IN  [err |-> lerr, kind |-> kind, derr |-> kind = "dir" /\ ~f[path].readable]

\* the next name of the directory on top, what lstat and the listing say of
\* it, and the call of the callback on it
Arrive(env) ==
    The({The({[path |-> path, kind |-> st.kind, derr |-> st.derr,
               r |-> walkFn(cfg, fs, path, st.kind, st.err \/ st.derr, env, written)] :
              st \in {Lstat(fs, path, env.lstat)}}) :
         path \in {Append(Top.path, Top.names[1])}})

\* walk(path, info, walkFn) for the next name of the directory on top: lstat
\* it; a failure goes to the callback; a file goes to the callback; a
\* directory is listed (an error if it cannot be read), goes to the callback
\* and, without an error, is entered.  A callback that returns an error ends
\* the walk.
Visit(env, a, op) ==
    LET r == a.r
        used == r.rec.used \cup {k \in {"lstat"} : env.lstat}
        rest == [stack EXCEPT ![Len(stack)].names = Tail(@)]
    IN  /\ r.rec.op = op
        /\ used = FaultsOf(env)
        /\ faults' = faults + Cardinality(used)
        /\ fs' = r.fs
        /\ last' = [r.rec EXCEPT !.used = used]
        /\ processed' = IF r.rec.res.err = "none" THEN processed
                        ELSE Append(processed, a.path)
        /\ errored' = IF op = "error" THEN errored \cup {a.path} ELSE errored
        /\ written' = IF r.rec.xfer = "ok" THEN written \cup {r.rec.newName}
                      ELSE written
        /\ IF r.ret # "nil"
           THEN stack' = <<>> /\ pc' = "aborted"
           ELSE /\ pc' = pc
                /\ stack' = IF a.kind = "dir" /\ ~a.derr
                            THEN Append(rest, Frame(a.path,
                                                    SortNames(Children(fs, a.path))))
                            ELSE rest
        /\ UNCHANGED <<cfg, fs0, xin, xout>>

WalkError(env, a) == Visit(env, a, "error")
SkipEntry(env, a) == Visit(env, a, "skip")
DateError(env, a) == Visit(env, a, "dateerr")
TransferError(env, a) == Visit(env, a, "xfererr")
Transferred(env, a) == Visit(env, a, "done")
Backfilled(env, a) == Visit(env, a, "backfilled")
BackfillError(env, a) == Visit(env, a, "backfillerr")

\* one entry of the walk, the system and the tool behaving as env says
Step(env) ==
    /\ pc = "walk"
    /\ stack # <<>>
    /\ Top.names # <<>>
    /\ met' = env
    /\ \E a \in {Arrive(env)} :
          \/ WalkError(env, a)
          \/ SkipEntry(env, a)
          \/ DateError(env, a)
          \/ TransferError(env, a)
          \/ Transferred(env, a)
          \/ Backfilled(env, a)
          \/ BackfillError(env, a)

\* the names of the directory on top are done: back to its parent
Leave ==
    /\ pc = "walk"
    /\ stack # <<>>
    /\ Top.names = <<>>
    /\ stack' = SubSeq(stack, 1, Len(stack) - 1)
    /\ last' = Rec("leave", Top.path)
    /\ met' = NoFault
    /\ UNCHANGED <<cfg, fs, fs0, pc, faults, processed, errored, written, xin, xout>>

\* filepath.Walk returns and main ends
Finish ==
    /\ pc = "walk"
    /\ stack = <<>>
    /\ pc' = "done"
    /\ last' = Rec("finish", <<>>)
    /\ met' = NoFault
    /\ UNCHANGED <<cfg, fs, fs0, stack, faults, processed, errored, written, xin, xout>>

\* one entry of the walk, whatever the system and the tool may still do
Steps == \E env \in EnvsLeft : Step(env)

Next == Steps \/ Leave \/ Finish

Spec == Init /\ [][Next]_vars

\* the walk is a loop of the one thread of the program and it keeps going:
\* the next entry is visited (nothing of the system has to fail for that), a
\* directory whose names are done is left, a walk that is over returns
FairSpec == Spec /\ WF_vars(Finish \/ Leave \/ Step(NoFault))

(***************************************************************************)
(* Properties                                                              *)
(***************************************************************************)


\* a name that ends, lowercased, in .jpg or .mp4
IsMediaName(name) ==
    HasSuffix(ToLower(name), DotJpg) \/ HasSuffix(ToLower(name), DotMp4)

\* the tag the metadata table gives for the type of the file
TagOfType(path) ==
    IF HasSuffix(ToLower(Base(path)), DotMp4) THEN "MediaCreateDate"
    ELSE "DateTimeOriginal"

\* the metadata read for path holds a valid, non-zero timestamp in its tag
UsableMetadata(path, tool, fm) ==
    /\ tool = "ok"
    /\ ~fm.Err
    /\ TagOfType(path) \in DOMAIN fm.Fields
    /\ IsValidTag(fm.Fields[TagOfType(path)])

\* the metadata of path was read and holds no usable timestamp
NoUsableMetadata(path, tool, fm) ==
    /\ tool = "ok"
    /\ ~UsableMetadata(path, tool, fm)

\* the callback passed the entry to extractDate in the last step
Resolved == last.res.err # "none"

\* C1: a .jpg or .mp4 whose tag (DateTimeOriginal for images,
\* MediaCreateDate for video) holds a valid, non-zero timestamp resolves to
\* exactly that timestamp, from metadata, without an error, whatever the
\* name and the path hold.
C1_MetadataWins ==
    (pc = "xdone" /\ UsableMetadata(xin.path, xin.tool, xin.fm))
    => xout = Result(ValidTagTime(xin.fm.Fields[TagOfType(xin.path)]), TRUE, "nil")

\* C1 happens: the tag holds one time, the file name another, the directory
\* a third
C1_Witness ==
    /\ pc = "xdone"
    /\ UsableMetadata(xin.path, xin.tool, xin.fm)
    /\ xin.path = <<DirS, DirDigits, NameDash>>
    /\ xout.ifExif
    /\ xout.date # NameTime(NameDash)

\* C2: without usable metadata, a file name with an eight-digit date,
\* optionally followed by "-" or "_" and a six-digit time, resolves to that
\* date and time of day, not from metadata, without an error.  (Stated for
\* files in a directory without digits.)
C2_FilenameDateTime ==
    (/\ pc = "xdone"
     /\ NoUsableMetadata(xin.path, xin.tool, xin.fm)
     /\ NameHasDate(Base(xin.path))
     /\ Dir(xin.path) = <<DirS>>)
    => xout = Result(NameTime(Base(xin.path)), FALSE, "nil")

\* C3: after a successful transfer, in move mode the source is gone and the
\* destination holds the original bytes; in copy mode both exist and hold
\* the original bytes.  (Stated for files the run did not write itself.)
C3_TransferPostcondition ==
    (last.xfer = "ok" /\ ~last.again)
    => IF cfg.copy
       THEN /\ last.post.srcExists /\ last.post.srcData = last.orig
            /\ last.post.dstExists /\ last.post.dstData = last.orig
       ELSE /\ ~last.post.srcExists
            /\ last.post.dstExists /\ last.post.dstData = last.orig

\* C4: a file with neither usable metadata nor a date pattern in its name
\* fails date resolution; nothing is made, transferred or backfilled for it.
C4_NoDateNoTransfer ==
    (/\ Resolved
     /\ NoUsableMetadata(last.path, last.tool, last.fm)
     /\ ~NameHasPattern(Base(last.path)))
    => /\ last.res.err # "nil"
       /\ last.xfer = "none"
       /\ last.backfill = "none"
       /\ last.newName = <<>>

\* C5: when the metadata cannot be read (the tool does not start, or it
\* reports an error for the file) and the file name holds a parsable date,
\* that date is returned, not from metadata, without an error.  (Stated for
\* files in a directory without digits; the day is compared.)
C5_FallbackOnToolFailure ==
    (/\ pc = "xdone"
     /\ (xin.tool # "ok" \/ xin.fm.Err)
     /\ NameHasDate(Base(xin.path))
     /\ Dir(xin.path) = <<DirS>>)
    => /\ xout.err = "nil"
       /\ ~xout.ifExif
       /\ <<xout.date.Y, xout.date.M, xout.date.D>>
            = <<NameTime(Base(xin.path)).Y, NameTime(Base(xin.path)).M,
                NameTime(Base(xin.path)).D>>

\* C6: updateExif is called only with --update-exif set, a date that came
\* from the file name and a transfer that succeeded, and on the destination
\* path; a file whose date came from metadata keeps, at the destination, the
\* bytes the transfer put there.
C6_BackfillOnlyFromFilename ==
    /\ last.backfill # "none"
         => /\ cfg.update
            /\ last.res.err = "nil" /\ ~last.res.ifExif
            /\ last.xfer = "ok" /\ last.post.dstExists
            /\ last.bpath = last.newName
            /\ last.newName # last.path => last.bpath # last.path
    /\ (last.xfer = "ok" /\ (last.res.ifExif \/ ~cfg.update))
         => /\ last.backfill = "none"
            /\ fs[last.newName].data = last.post.dstData

\* C6 happens: a backfill wrote the tags of a moved file at its new path
C6_Witness ==
    /\ last.backfill = "ok"
    /\ ~cfg.copy
    /\ last.bpath # last.path
    /\ "DateTimeOriginal" \in DOMAIN fs[last.bpath].data.fields
    /\ \E p \in Range(processed) : p # last.path

\* every qualifying entry of the source tree was passed to date resolution,
\* or an access error was logged for it or for a directory above it
AllHandled ==
    \A p \in DOMAIN fs0 :
       (fs0[p].kind # "dir" /\ IsMediaName(Base(p)))
       => \/ p \in Range(processed)
          \/ \E q \in Prefixes(p) : q \in errored

\* C7: no failure of a step for one entry ends the walk: the callback never
\* returns an error, the run ends, and by then every qualifying entry was
\* handled, the ones after a failure and beside an unreadable directory too.
C7_WalkNeverAborts ==
    /\ [](pc # "aborted")
    /\ <>(pc = "done")
    /\ [](pc = "done" => AllHandled)

\* C7 happens: the run ended after an unreadable directory, a failed date
\* resolution and one more failure, and the subtree after them was processed
C7_Witness ==
    /\ pc = "done"
    /\ <<DirS, DirU>> \in errored
    /\ <<DirS, NameNoDate>> \in Range(processed)
    /\ faults >= 1
    /\ <<DirS, DirZ, Y2024, M02, D29, NameUpper>> \in Range(processed)

\* C8: the date from the file name depends on the base name only: without
\* usable metadata, the same base name in another directory resolves to the
\* same result.
C8_BaseNameOnly ==
    (pc = "xdone" /\ NoUsableMetadata(xin.path, xin.tool, xin.fm))
    => \A d \in XDirs :
          extractDate(Append(d, Base(xin.path)), xin.tool, xin.fm) = xout

\* C9 as stated: only regular files with a .jpg / .mp4 name are passed to
\* date resolution; directories and files of another extension are left as
\* they are, and no error is logged for them.
C9_OnlyRegularMediaFiles ==
    /\ Resolved => (last.kind = "file" /\ IsMediaName(Base(last.path)))
    /\ (last.kind = "dir" \/ (last.kind = "file" /\ ~IsMediaName(Base(last.path))))
         => ~last.errlog
    /\ \A p \in DOMAIN fs0 :
          (fs0[p].kind = "dir" \/ ~IsMediaName(Base(p)))
          => (p \in DOMAIN fs /\ fs[p] = fs0[p])

\* C9 amended: only entries that are no directories (regular files, and
\* symbolic links too) with a .jpg / .mp4 name, handed over without an
\* access error, are passed to date resolution; every other entry is left
\* as it is, and the one error logged for such an entry is the access error
\* of the walk.
C9_OnlyNonDirMediaEntries ==
    /\ Resolved => (last.kind \in {"file", "symlink"} /\ IsMediaName(Base(last.path)))
    /\ (last.errlog /\ (last.kind \notin {"file", "symlink"}
                        \/ ~IsMediaName(Base(last.path))))
         => (last.op = "error" /\ ~Resolved)
    /\ last.op = "skip" => (~last.errlog /\ ~Resolved /\ last.xfer = "none")
    /\ \A p \in DOMAIN fs0 :
          (fs0[p].kind = "dir" \/ ~IsMediaName(Base(p)))
          => (p \in DOMAIN fs /\ fs[p] = fs0[p])

\* C9 happens: a .png with a date in its name and valid metadata is skipped
\* after a symbolic link was transferred and a directory named like a video
\* was passed by
C9_Witness ==
    /\ last.op = "skip"
    /\ last.path = <<DirS, NamePng>>
    /\ <<DirS, NameLink>> \in Range(processed)
    /\ <<DirS, NameAlbum>> \notin Range(processed)
    /\ \E p \in written : Base(p) = NameLink

\* C10: a file the run itself wrote into the destination tree is never
\* picked up by the same walk, and no path is processed twice.
C10_ProcessedOnce ==
    /\ Resolved => ~last.again
    /\ \A i, j \in 1..Len(processed) : processed[i] = processed[j] => i = j

=============================================================================
